---- MODULE Spec2Model ----
(***************************************************************************)
(* Model of the gavaconnect SDK core: the AsyncTransport.request retry /   *)
(* re-authorization loop (http/transport.py) and the token providers       *)
(* (auth/providers.py).                                                    *)
(*                                                                         *)
(* Spec          one logical call of AsyncTransport.request                *)
(* ProviderSpec  concurrent get_token()/refresh() calls on one provider    *)
(* BearerSpec    concurrent requests that share one BearerAuthPolicy and   *)
(*               its provider (auth/bearer.py, facade_async.py)            *)
(* HelperSpec    one call of a pure helper: _can_retry, _full_jitter, the  *)
(*               retry delay, raise_for_api_error                          *)
(***************************************************************************)
EXTENDS Integers, Sequences, FiniteSets, TLC

(***************************************************************************)
(* Bounds of the model.                                                    *)
(***************************************************************************)
MaxAttemptsBound == 2
NumTasks == 3
MaxClock == 30
NumRequests == 2
MaxJitterAttempt == 3
\* sends of one call the model follows: the max_attempts + 2 a call can
\* make at most, so the guard of the send actions never binds
MaxSends == MaxAttemptsBound + 2

(***************************************************************************)
(* Values used for "no value".                                             *)
(***************************************************************************)
None == -1

VARIABLES
  \* ---- AsyncTransport.request -------------------------------------
  cfg,              \* self.cfg.retry: max_attempts, retry_on_status, has_max_cap
  method,           \* the caller's HTTP method string
  headers,          \* names of the caller-supplied headers
  auth,             \* kind of AuthPolicy passed: "none", "basic", "bearer"
  hooks,            \* number of registered request hooks (= response hooks)
  pc,               \* "start", "send", "returned", "raised"
  attempt,          \* local attempt
  did_refresh,      \* local did_refresh
  sent,             \* outcomes of the sends made so far, in order
  sleeps,           \* asyncio.sleep calls made so far, in order
  req,              \* local req: the request object built last
  wire,             \* request objects handed to client.send, in order
  nAuthorize,       \* calls of auth.authorize
  nOnUnauthorized,  \* calls of auth.on_unauthorized
  lastUnauth,       \* outcome of the on_unauthorized call of the last step
  nReqHook,         \* request hook invocations
  nRespHook,        \* response hook invocations
  nSwallowed,       \* hook exceptions swallowed
  result,           \* status of the returned response, None before
  exc,              \* exception that left request(), "none" before
  \* ---- one token provider and the tasks calling it ----------------
  early,            \* self._early
  clock,            \* time.time()
  token,            \* self._token
  exp,              \* self._exp
  upstream,         \* instant at which the server expires the cached token
  locked,           \* self._lock is held
  waiters,          \* tasks suspended in self._lock.acquire(), first first
  tpc,              \* per task: "idle", "waiting", "fetching", "done", "failed"
  op,               \* per task: the method it called
  ret,              \* per task: the token its call returned
  stale,            \* per task: no usable cached token at its call
  fetchedBy,        \* per task: its call awaited self._fetch()
  nFetch,           \* token-endpoint requests issued so far
  storeAt,          \* clock of each store into the cache, in order
  \* ---- one BearerAuthPolicy and the requests sharing it -----------
  last,             \* self._last
  rpc,              \* per request: "new", "authorizing", "inflight",
                    \*   "refreshing", "reauth", "returned", "raised"
  attached,         \* per request: token of its Authorization header
  rejected,         \* per request: token of the attempt answered 401
  changed,          \* per request: what its on_unauthorized() call came to
  refreshedTok,     \* per request: token its provider.refresh() returned
  nRefresh,         \* per request: provider.refresh() calls it made
  apiSends,         \* per request: sends to the protected endpoint
  final,            \* per request: status of the response returned to it
  \* ---- one call of a pure helper ----------------------------------
  fn,               \* the helper called, "none" when there is none
  arg,              \* its arguments
  fdone,            \* it has returned or raised
  out               \* what it returned or raised

tvars == <<cfg, method, headers, auth, hooks, pc, attempt, did_refresh, sent,
           sleeps, req, wire, nAuthorize, nOnUnauthorized, lastUnauth, nReqHook,
           nRespHook, nSwallowed, result, exc>>

pvars == <<early, clock, token, exp, upstream, locked, waiters, tpc,
           op, ret, stale, fetchedBy, nFetch, storeAt>>

bvars == <<last, rpc, attached, rejected, changed, refreshedTok, nRefresh,
           apiSends, final>>

fvars == <<fn, arg, fdone, out>>

vars == <<tvars, pvars, bvars, fvars>>

(***************************************************************************)
(* Inputs of one request.                                                  *)
(***************************************************************************)
Methods == {"GET", "post", "POST"}
\* variant: no idempotency key is attached
idempotency_headers_none == {}

\* idempotency.py lines 13-23: the header names idempotency_headers() returns
idempotency_headers == {"idempotency-key"}

HeaderSets == {{}, {"Idempotency-Key"}, idempotency_headers}
Statuses == {200, 401, 429}
\* statuses a RetryPolicy may list; success statuses are never configured
RetryableChoices == SUBSET {401, 429}
\* retry-after header of a response: None (absent/unparseable) or seconds
RetryAfterHints == {None, 2}
AuthKinds == {"none", "basic", "bearer"}

\* str.upper() on the method strings of the model
Upper(m) ==
  CASE m = "post" -> "POST"
    [] m = "get" -> "GET"
    [] m = "Delete" -> "DELETE"
    [] m = "foo" -> "FOO"
    [] OTHER -> m

\* str.lower() on the header names of the model
Lower(h) ==
  CASE h = "Idempotency-Key" -> "idempotency-key"
    [] h = "IDEMPOTENCY-KEY" -> "idempotency-key"
    [] h = "Idempotency_Key" -> "idempotency_key"
    [] h = "X-Trace" -> "x-trace"
    [] OTHER -> h

\* variant: the method is compared as the caller spelled it
is_idempotent_exact(m) == m \in {"GET", "HEAD", "OPTIONS", "DELETE"}

\* idempotency.py lines 55-56
is_idempotent(m) == Upper(m) \in {"GET", "HEAD", "OPTIONS", "DELETE"}

\* variant: every request counts as retry-eligible
can_retry_always(m, hs) == TRUE

\* idempotency.py lines 59-63
can_retry(m, hs) ==
  is_idempotent(m) \/ "idempotency-key" \in {Lower(h) : h \in hs}

\* BasicAuthPolicy.authorize only sets a header; BearerAuthPolicy.authorize
\* awaits provider.get_token(), which may raise.
AuthorizeOutcomes(k) == IF k = "bearer" THEN {"ok", "raise"} ELSE {"ok"}

\* BasicAuthPolicy.on_unauthorized is constantly False; the bearer policy
\* reports whether the refreshed token differs, or raises with the provider.
OnUnauthorizedOutcomes(k) ==
  IF k = "bearer" THEN {"true", "false", "raise"} ELSE {"false"}

\* how many request hooks (and as many response hooks) are registered
HookCounts == {0, 2}

HookOutcomes == {"ok", "raise"}

NetErr == [kind |-> "neterr", status |-> None, ra |-> None]
Resp(s, ra) == [kind |-> "resp", status |-> s, ra |-> ra]

(***************************************************************************)
(* Inputs of the token providers.                                          *)
(***************************************************************************)
Tasks == 1..NumTasks
\* the logical requests that share the policy, each run by a task of its own
Requests == 1..NumRequests
\* early_refresh_s of the constructor (default 60)
EarlyChoices == {0, 60}
\* access_token values the endpoint hands out (never the empty string)
Tokens == {"tokA", "tokB"}
\* expires_in of a token response; None when the response omits it
ExpiresInChoices == {10, None}
\* seconds by which the clock moves between two steps
TickSteps == {15}

MIN_TOKEN_TTL_S == 30
DEFAULT_EXPIRES_IN == 3600

Max(a, b) == IF a >= b THEN a ELSE b

\* __init__ of either provider: empty cache, free lock; no task has called
ProviderConstructed ==
  /\ early \in EarlyChoices
  /\ clock = 0
  /\ token = ""
  /\ exp = 0
  /\ upstream = 0
  /\ locked = FALSE
  /\ waiters = <<>>
  /\ tpc = [t \in Tasks |-> "idle"]
  /\ op = [t \in Tasks |-> "none"]
  /\ ret = [t \in Tasks |-> ""]
  /\ stale = [t \in Tasks |-> FALSE]
  /\ fetchedBy = [t \in Tasks |-> FALSE]
  /\ nFetch = 0
  /\ storeAt = <<>>

\* BearerAuthPolicy.__init__ and the requests that will use the policy
PolicyConstructed ==
  /\ last = ""
  /\ rpc = [r \in Requests |-> "new"]
  /\ attached = [r \in Requests |-> ""]
  /\ rejected = [r \in Requests |-> ""]
  /\ changed = [r \in Requests |-> "none"]
  /\ refreshedTok = [r \in Requests |-> ""]
  /\ nRefresh = [r \in Requests |-> 0]
  /\ apiSends = [r \in Requests |-> 0]
  /\ final = [r \in Requests |-> None]

\* no helper call is followed
NoHelperCall ==
  /\ fn = "none"
  /\ arg = None
  /\ fdone = FALSE
  /\ out = None

\* no request object built yet
NoRequest ==
  [obj |-> 0, method |-> "", headers |-> {}, attempt |-> 0,
   authorization |-> 0]

\* locals of request() at its entry
RequestEntered ==
  /\ pc = "start"
  /\ attempt = 1
  /\ did_refresh = FALSE
  /\ sent = <<>>
  /\ sleeps = <<>>
  /\ req = NoRequest
  /\ wire = <<>>
  /\ nAuthorize = 0
  /\ nOnUnauthorized = 0
  /\ lastUnauth = "none"
  /\ nReqHook = 0
  /\ nRespHook = 0
  /\ nSwallowed = 0
  /\ result = None
  /\ exc = "none"

\* One call of request().  has_max_cap tells whether cfg.retry has the
\* max_cap_s attribute that lines 114 and 161 read: the RetryPolicy of
\* config.py (a slots dataclass) has none, so the read raises
\* AttributeError; a policy object that carries the field is the other case.
Init ==
  /\ ProviderConstructed
  /\ PolicyConstructed
  /\ NoHelperCall
  /\ early = 60
  /\ cfg \in [max_attempts : 1..MaxAttemptsBound,
              retry_on_status : RetryableChoices,
              has_max_cap : BOOLEAN]
  /\ method \in Methods
  /\ headers \in HeaderSets
  /\ auth \in AuthKinds
  /\ hooks \in HookCounts
  /\ RequestEntered

\* variant: the hooks are awaited without a try/except of their own
HookLoop_unprotected(h) ==
  IF hooks > 0 /\ h = "raise"
  THEN [invoked |-> 1, swallowed |-> 0, escapes |-> TRUE]
  ELSE [invoked |-> hooks, swallowed |-> 0, escapes |-> FALSE]

\* for hook in hooks: try: await hook(...) except Exception: pass
\* h = "raise": the first registered hook raises, the others return
HookLoop(h) ==
  [invoked |-> hooks,
   swallowed |-> IF hooks > 0 /\ h = "raise" THEN 1 ELSE 0,
   escapes |-> FALSE]

\* number of hook exceptions swallowed by one pass over the hooks
Swallow(h) == HookLoop(h).swallowed

\* variant: build() keeps the attempt number it saw when it was defined
build_early(k) ==
  [obj |-> req.obj + 1, method |-> method, headers |-> headers,
   attempt |-> 1, authorization |-> 0]

\* lines 91-94: build() makes a new request object from the caller's
\* method, url and keyword arguments and stores the current attempt (k) in
\* its extensions; obj tells the objects apart
build(k) ==
  [obj |-> req.obj + 1, method |-> method, headers |-> headers,
   attempt |-> k, authorization |-> 0]

\* auth.authorize(r) sets the Authorization header of r, and nothing else:
\* the header is named after the authorize call that set it
authorize(r) ==
  IF auth = "none" THEN r ELSE [r EXCEPT !.authorization = nAuthorize + 1]

\* req = build(); await auth.authorize(req); then the request hooks where
\* the code path runs them (withHooks).  a: outcome of authorize, h: outcome
\* of the request hooks, sw: hook exceptions swallowed earlier in the step.
Rebuild(a, h, withHooks, sw) ==
  IF auth # "none" /\ a = "raise"
  THEN /\ nAuthorize' = nAuthorize + 1
       /\ req' = build(attempt')
       /\ pc' = "raised"
       /\ exc' = "AuthorizeError"
       /\ nSwallowed' = nSwallowed + sw
       /\ UNCHANGED <<nReqHook, result>>
  ELSE IF withHooks /\ HookLoop(h).escapes
  THEN /\ nAuthorize' = IF auth # "none" THEN nAuthorize + 1 ELSE nAuthorize
       /\ req' = authorize(build(attempt'))
       /\ pc' = "raised"
       /\ exc' = "HookError"
       /\ nReqHook' = nReqHook + HookLoop(h).invoked
       /\ nSwallowed' = nSwallowed + sw
       /\ UNCHANGED result
  ELSE /\ nAuthorize' = IF auth # "none" THEN nAuthorize + 1 ELSE nAuthorize
       /\ req' = authorize(build(attempt'))
       /\ pc' = "send"
       /\ nReqHook' = IF withHooks THEN nReqHook + HookLoop(h).invoked
                                   ELSE nReqHook
       /\ nSwallowed' = nSwallowed + sw + (IF withHooks THEN Swallow(h) ELSE 0)
       /\ UNCHANGED <<result, exc>>

\* lines 87-104: first build, authorize and request hooks
Start ==
  /\ pc = "start"
  /\ UNCHANGED <<cfg, method, headers, auth, hooks, attempt, did_refresh,
                 sent, sleeps, wire, nOnUnauthorized, lastUnauth, nRespHook>>
  /\ \E a \in AuthorizeOutcomes(auth), h \in HookOutcomes :
       Rebuild(a, h, TRUE, 0)
  /\ UNCHANGED pvars
  /\ UNCHANGED bvars
  /\ UNCHANGED fvars

\* variant: the network error is re-raised as it came
WrapSendError_unwrapped == "HTTPError"

\* line 112: raise TransportError(str(e)) from e
WrapSendError == "TransportError"

\* lines 109-121: client.send raised httpx.HTTPError
SendFails ==
  /\ pc = "send"
  /\ Len(sent) < MaxSends
  /\ sent' = Append(sent, NetErr)
  /\ wire' = Append(wire, req)
  /\ lastUnauth' = "none"
  /\ IF attempt > cfg.max_attempts \/ ~can_retry(method, headers)
     THEN /\ pc' = "raised"
          /\ exc' = WrapSendError
          /\ UNCHANGED <<attempt, sleeps, req, nAuthorize, result, nReqHook,
                         nSwallowed>>
     ELSE IF ~cfg.has_max_cap
     THEN \* self.cfg.retry.max_cap_s: the RetryPolicy has no such field
          /\ pc' = "raised"
          /\ exc' = "AttributeError"
          /\ UNCHANGED <<attempt, sleeps, req, nAuthorize, result, nReqHook,
                         nSwallowed>>
     ELSE /\ sleeps' = Append(sleeps, "backoff")
          /\ attempt' = attempt + 1
          /\ \E a \in AuthorizeOutcomes(auth) : Rebuild(a, "ok", FALSE, 0)
  /\ UNCHANGED <<cfg, method, headers, auth, hooks, did_refresh,
                 nOnUnauthorized, nRespHook>>
  /\ UNCHANGED pvars
  /\ UNCHANGED bvars
  /\ UNCHANGED fvars

\* line 108 outside the except clause: client.send raised something that is
\* not an httpx.HTTPError; nothing in request() catches it
SendCrashes ==
  /\ pc = "send"
  /\ Len(sent) < MaxSends
  /\ sent' = Append(sent, [kind |-> "crash", status |-> None, ra |-> None])
  /\ wire' = Append(wire, req)
  /\ lastUnauth' = "none"
  /\ pc' = "raised"
  /\ exc' = "SendError"
  /\ UNCHANGED <<cfg, method, headers, auth, hooks, attempt, did_refresh,
                 sleeps, req, nAuthorize, nOnUnauthorized, nReqHook,
                 nRespHook, nSwallowed, result>>
  /\ UNCHANGED pvars
  /\ UNCHANGED bvars
  /\ UNCHANGED fvars

\* variant: a 401 is retried whether or not the policy lists it
ShouldRetry_always401(status) ==
  /\ status \in cfg.retry_on_status \cup {401}
  /\ attempt <= cfg.max_attempts
  /\ can_retry(method, headers)

\* lines 150-155: the condition of the regular retry policy
ShouldRetry(status) ==
  /\ status \in cfg.retry_on_status
  /\ attempt <= cfg.max_attempts
  /\ can_retry(method, headers)

\* lines 149-182: the regular retry policy, then return resp
StatusRetry(status, ra, sw) ==
  IF ShouldRetry(status)
  THEN IF ra = None /\ ~cfg.has_max_cap
       THEN \* line 161 reads self.cfg.retry.max_cap_s only without a hint
            /\ pc' = "raised"
            /\ exc' = "AttributeError"
            /\ nSwallowed' = nSwallowed + sw
            /\ UNCHANGED <<attempt, sleeps, req, nAuthorize, nReqHook, result>>
       ELSE /\ sleeps' = Append(sleeps, IF ra = None THEN "backoff" ELSE "hint")
            /\ attempt' = attempt + 1
            /\ \E a \in AuthorizeOutcomes(auth), h \in HookOutcomes :
                 Rebuild(a, h, TRUE, sw)
  ELSE /\ pc' = "returned"
       /\ result' = status
       /\ nSwallowed' = nSwallowed + sw
       /\ UNCHANGED <<attempt, sleeps, req, nAuthorize, nReqHook, exc>>

\* variant: the refresh retry waits like any other retry
RefreshRetry_sleeping(sw) ==
  /\ did_refresh' = TRUE
  /\ attempt' = attempt + 1
  /\ sleeps' = Append(sleeps, "backoff")
  /\ \E a \in AuthorizeOutcomes(auth), h \in HookOutcomes :
       Rebuild(a, h, TRUE, sw)

\* lines 136-147: refreshed, so resend at once with the new credentials
RefreshRetry(sw) ==
  /\ did_refresh' = TRUE
  /\ attempt' = attempt + 1
  /\ UNCHANGED sleeps
  /\ \E a \in AuthorizeOutcomes(auth), h \in HookOutcomes :
       Rebuild(a, h, TRUE, sw)

\* variant: the did_refresh flag is not consulted
MayRefresh_unguarded(status) == status = 401 /\ auth # "none"

\* line 131: whether the auth policy gets its chance to refresh
MayRefresh(status) == status = 401 /\ auth # "none" /\ ~did_refresh

\* variant: no try/except around on_unauthorized
Refreshed_uncaught(u) ==
  CASE u = "true" -> "yes"
    [] u = "false" -> "no"
    [] u = "raise" -> "propagate"

\* lines 132-135: try: refreshed = await auth.on_unauthorized()
\*                except Exception: refreshed = False
Refreshed(u) ==
  CASE u = "true" -> "yes"
    [] u = "false" -> "no"
    [] u = "raise" -> "no"

\* variant: the response hooks see a response only after the 401 handling
RunResponseHooks_afterRefresh(status, rh) ==
  nRespHook' = nRespHook + (IF MayRefresh(status) THEN 0
                                                  ELSE HookLoop(rh).invoked)

\* lines 123-128: the response hooks, run before the 401 handling and the
\* retry policy look at the response
RunResponseHooks(status, rh) ==
  nRespHook' = nRespHook + HookLoop(rh).invoked

\* lines 108, 123-182: client.send returned a response
SendResponds ==
  /\ pc = "send"
  /\ Len(sent) < MaxSends
  /\ \E status \in Statuses, ra \in RetryAfterHints, rh \in HookOutcomes :
       /\ sent' = Append(sent, Resp(status, ra))
       /\ wire' = Append(wire, req)
       /\ RunResponseHooks(status, rh)
       /\ IF HookLoop(rh).escapes
          THEN /\ pc' = "raised"
               /\ exc' = "HookError"
               /\ lastUnauth' = "none"
               /\ UNCHANGED <<nOnUnauthorized, did_refresh, attempt, sleeps,
                              req, nAuthorize, nReqHook, nSwallowed, result>>
          ELSE IF MayRefresh(status)
          THEN \E u \in OnUnauthorizedOutcomes(auth) :
                 /\ nOnUnauthorized' = nOnUnauthorized + 1
                 /\ lastUnauth' = u
                 /\ CASE Refreshed(u) = "yes" -> RefreshRetry(Swallow(rh))
                      [] Refreshed(u) = "no" ->
                           /\ StatusRetry(status, ra, Swallow(rh))
                           /\ UNCHANGED did_refresh
                      [] OTHER ->
                           \* the exception of on_unauthorized leaves request()
                           /\ pc' = "raised"
                           /\ exc' = "OnUnauthorizedError"
                           /\ nSwallowed' = nSwallowed + Swallow(rh)
                           /\ UNCHANGED <<did_refresh, attempt, sleeps, req,
                                          nAuthorize, nReqHook, result>>
          ELSE /\ UNCHANGED <<nOnUnauthorized, did_refresh>>
               /\ lastUnauth' = "none"
               /\ StatusRetry(status, ra, Swallow(rh))
  /\ UNCHANGED <<cfg, method, headers, auth, hooks>>
  /\ UNCHANGED pvars
  /\ UNCHANGED bvars
  /\ UNCHANGED fvars

Next == Start \/ SendFails \/ SendCrashes \/ SendResponds

Spec == Init /\ [][Next]_vars

\* The same call when every send, sleep, hook and auth call it awaits
\* returns: a step that is possible is eventually taken.
\* The spellings of the method and of the key header are left to can_retry
\* (HelperSpec): one eligible and one ineligible method, with and without
\* the key.
LiveInit ==
  /\ Init
  /\ method \in {"GET", "POST"}
  /\ headers \in {{}, idempotency_headers}

LiveSpec == LiveInit /\ [][Next]_vars /\ WF_vars(Next)

(***************************************************************************)
(* The token providers: ClientCredentialsProvider and                      *)
(* BasicTokenEndpointProvider share get_token(), refresh() and the expiry  *)
(* computation of _fetch() line for line.                                  *)
(***************************************************************************)

\* variant: a token is still served at the instant it expires
CacheUsable_inclusive == token # "" /\ clock <= exp

\* providers.py line 77 / 148: if self._token and time.time() < self._exp
CacheUsable == token # "" /\ clock < exp

\* variant: the with block is entered without the lock
LockFree_ignored == TRUE

\* asyncio.Lock.acquire() returns without suspending only when the lock is
\* free and nobody waits for it
LockFree == ~locked /\ waiters = <<>>

\* variant: a response without expires_in counts as a lifetime of zero
fetch_ttl_noDefault(e) == IF e = None THEN 0 ELSE e

\* ttl = float(p.get("expires_in", 3600))
fetch_ttl(e) == IF e = None THEN DEFAULT_EXPIRES_IN ELSE e

\* variant: the early-refresh margin is added instead of subtracted
fetch_expiry_late(now, e) == now + Max(MIN_TOKEN_TTL_S, fetch_ttl(e) + early)

\* time.time() + max(MIN_TOKEN_TTL_S, ttl - self._early)
fetch_expiry(now, e) == now + Max(MIN_TOKEN_TTL_S, fetch_ttl(e) - early)

\* variant: refresh() looks at the cache as get_token() does
UsesCache_always(o) == TRUE

\* get_token() returns the cached token while it is usable (lines 77-78,
\* 148-149); refresh() has no such test (lines 89-91, 160-162)
UsesCache(o) == o = "get_token"

\* variant: the cache is checked before the lock is taken, not inside it
Enter_checkedOutside(t, o) ==
  IF o = "get_token" /\ (IF tpc[t] = "idle" THEN CacheUsable ELSE ~stale[t])
  THEN /\ ret' = [ret EXCEPT ![t] = token]
       /\ tpc' = [tpc EXCEPT ![t] = "done"]
       /\ locked' = FALSE
       /\ UNCHANGED <<nFetch, fetchedBy>>
  ELSE /\ tpc' = [tpc EXCEPT ![t] = "fetching"]
       /\ locked' = TRUE
       /\ nFetch' = nFetch + 1
       /\ fetchedBy' = [fetchedBy EXCEPT ![t] = TRUE]
       /\ UNCHANGED ret

\* body of "async with self._lock:" up to its first suspension, for task t
\* running method o with the lock just acquired
Enter(t, o) ==
  IF UsesCache(o) /\ CacheUsable
  THEN /\ ret' = [ret EXCEPT ![t] = token]
       /\ tpc' = [tpc EXCEPT ![t] = "done"]
       /\ locked' = FALSE
       /\ UNCHANGED <<nFetch, fetchedBy>>
  ELSE /\ tpc' = [tpc EXCEPT ![t] = "fetching"]
       /\ locked' = TRUE
       /\ nFetch' = nFetch + 1
       /\ fetchedBy' = [fetchedBy EXCEPT ![t] = TRUE]
       /\ UNCHANGED ret

\* a task whose previous provider call is in state from (none: "idle",
\* returned: "done") calls method o: it runs until it returns or suspends
CallFrom(t, o, from) ==
  /\ tpc[t] = from
  /\ op' = [op EXCEPT ![t] = o]
  /\ stale' = [stale EXCEPT ![t] = ~CacheUsable]
  /\ IF LockFree
     THEN Enter(t, o) /\ UNCHANGED waiters
     ELSE /\ waiters' = Append(waiters, t)
          /\ tpc' = [tpc EXCEPT ![t] = "waiting"]
          /\ UNCHANGED <<locked, ret, nFetch, fetchedBy>>
  /\ UNCHANGED <<early, clock, token, exp, upstream, storeAt>>
  /\ UNCHANGED tvars

\* the one call a task of ProviderSpec makes
Call(t, o) == CallFrom(t, o, "idle")

get_token(t) == Call(t, "get_token")

refresh(t) == Call(t, "refresh")

\* the lock was released: its first waiter resumes inside the with block
Resume(t) ==
  /\ ~locked
  /\ waiters # <<>>
  /\ Head(waiters) = t
  /\ waiters' = Tail(waiters)
  /\ Enter(t, op[t])
  /\ UNCHANGED <<early, clock, token, exp, upstream, op, stale,
                 storeAt>>
  /\ UNCHANGED tvars

\* variant: the token is stored on return, the expiry is left for later
StoredPair_tokenOnly(tok, e) == <<tok, exp>>

\* lines 79, 90: self._token, self._exp = await self._fetch(): the pair
\* _fetch returned is assigned as a whole, with no await in between
StoredPair(tok, e) == <<tok, fetch_expiry(clock, e)>>

\* _fetch() returned: the with block stores the pair and returns the token
FetchOk(t) ==
  /\ tpc[t] = "fetching"
  /\ \E tok \in Tokens, e \in ExpiresInChoices :
       /\ token' = StoredPair(tok, e)[1]
       /\ exp' = StoredPair(tok, e)[2]
       /\ upstream' = clock + fetch_ttl(e)
       /\ ret' = [ret EXCEPT ![t] = tok]
  /\ storeAt' = Append(storeAt, clock)
  /\ tpc' = [tpc EXCEPT ![t] = "done"]
  /\ locked' = FALSE
  /\ UNCHANGED <<early, clock, waiters, op, stale, fetchedBy,
                 nFetch>>
  /\ UNCHANGED tvars

\* variant: a failed fetch drops the cached token
CacheAfterFailure_cleared == <<"", 0>>

\* lines 64, 79, 90: r.raise_for_status() raises inside _fetch, so the
\* assignment to self._token, self._exp is not reached
CacheAfterFailure == <<token, exp>>

\* variant: the exception leaves get_token()/refresh() with the lock held
\* (acquire and release without a with block)
FetchFails_lockKept(t) ==
  /\ tpc[t] = "fetching"
  /\ tpc' = [tpc EXCEPT ![t] = "failed"]
  /\ locked' = TRUE
  /\ token' = CacheAfterFailure[1]
  /\ exp' = CacheAfterFailure[2]
  /\ UNCHANGED <<early, clock, upstream, waiters, op,
                 ret, stale, fetchedBy, nFetch, storeAt>>
  /\ UNCHANGED tvars

\* variant: the failure of one fetch is handed to every caller that waits
\* for the lock
FetchFails_shared(t) ==
  /\ tpc[t] = "fetching"
  /\ tpc' = [u \in Tasks |->
              IF u = t \/ (\E i \in 1..Len(waiters) : waiters[i] = u)
              THEN "failed" ELSE tpc[u]]
  /\ waiters' = <<>>
  /\ locked' = FALSE
  /\ token' = CacheAfterFailure[1]
  /\ exp' = CacheAfterFailure[2]
  /\ UNCHANGED <<early, clock, upstream, op,
                 ret, stale, fetchedBy, nFetch, storeAt>>
  /\ UNCHANGED tvars

\* _fetch() raised (raise_for_status on a non-2xx answer, a network error):
\* the with block is left by the exception
FetchFails(t) ==
  /\ tpc[t] = "fetching"
  /\ tpc' = [tpc EXCEPT ![t] = "failed"]
  /\ locked' = FALSE
  /\ token' = CacheAfterFailure[1]
  /\ exp' = CacheAfterFailure[2]
  /\ UNCHANGED <<early, clock, upstream, waiters, op,
                 ret, stale, fetchedBy, nFetch, storeAt>>
  /\ UNCHANGED tvars

\* time passes
Tick ==
  /\ \E d \in TickSteps :
       /\ clock + d <= MaxClock
       /\ clock' = clock + d
  /\ UNCHANGED <<early, token, exp, upstream, locked, waiters, tpc,
                 op, ret, stale, fetchedBy, nFetch, storeAt>>
  /\ UNCHANGED tvars

ProviderInit ==
  /\ ProviderConstructed
  /\ PolicyConstructed
  /\ NoHelperCall
  /\ cfg = [max_attempts |-> 1, retry_on_status |-> {}, has_max_cap |-> FALSE]
  /\ method = "GET"
  /\ headers = {}
  /\ auth = "none"
  /\ hooks = 0
  /\ RequestEntered

ProviderNext ==
  \/ \E t \in Tasks : get_token(t) /\ UNCHANGED <<bvars, fvars>>
  \/ \E t \in Tasks : refresh(t) /\ UNCHANGED <<bvars, fvars>>
  \/ \E t \in Tasks : Resume(t) /\ UNCHANGED <<bvars, fvars>>
  \/ \E t \in Tasks : FetchOk(t) /\ UNCHANGED <<bvars, fvars>>
  \/ \E t \in Tasks : FetchFails(t) /\ UNCHANGED <<bvars, fvars>>
  \/ Tick /\ UNCHANGED <<bvars, fvars>>

ProviderSpec == ProviderInit /\ [][ProviderNext]_vars

\* The providers under a fair event loop and a token endpoint that always
\* answers: a task whose turn it is to take the lock resumes, and a fetch
\* in flight ends, with a token or with an error.  Whether a task calls at
\* all is left open.  The calls are followed at one instant (the cache is
\* empty, or filled and unexpired) with the default early_refresh_s.
ProviderLiveInit ==
  /\ ProviderInit
  /\ early = 60

ProviderLiveNext ==
  \/ \E t \in Tasks : get_token(t) /\ UNCHANGED <<bvars, fvars>>
  \/ \E t \in Tasks : refresh(t) /\ UNCHANGED <<bvars, fvars>>
  \/ \E t \in Tasks : Resume(t) /\ UNCHANGED <<bvars, fvars>>
  \/ \E t \in Tasks : FetchOk(t) /\ UNCHANGED <<bvars, fvars>>
  \/ \E t \in Tasks : FetchFails(t) /\ UNCHANGED <<bvars, fvars>>

ProviderLiveSpec ==
  /\ ProviderLiveInit
  /\ [][ProviderLiveNext]_vars
  /\ \A t \in Tasks :
       /\ WF_vars(Resume(t) /\ UNCHANGED <<bvars, fvars>>)
       /\ WF_vars((FetchOk(t) \/ FetchFails(t)) /\ UNCHANGED <<bvars, fvars>>)

(***************************************************************************)
(* BearerAuthPolicy shared by concurrent requests.  Each request is one    *)
(* call of AsyncTransport.request with the default retry_on_status (no     *)
(* 401 in it), run by its own task: authorize, send, and on a first 401    *)
(* on_unauthorized, then authorize and send once more.                     *)
(***************************************************************************)

\* variant: authorize always asks the token endpoint
AuthorizeVia_refresh == "refresh"

\* bearer.py line 73: token = await self._p.get_token()
AuthorizeVia == "get_token"

\* variant: any non-empty refreshed token counts as a change
TokenChanged_nonEmpty(new, seen) == new # ""

\* bearer.py line 85: changed = new_token != self._last
TokenChanged(new, seen) == new # seen

\* transport.py lines 136-140: between the return of on_unauthorized() and
\* the provider call of the new authorize() the task does not suspend, so
\* no other task runs while a request is there
Urgent == \E r \in Requests : rpc[r] = "reauth"

\* bearer.py lines 73-75 once the get_token() awaited by authorize has moved
\* for request r; transport.py then runs the hooks and sends
AuthorizeReturns(r) ==
  CASE tpc'[r] = "done" ->
         /\ last' = ret'[r]
         /\ attached' = [attached EXCEPT ![r] = ret'[r]]
         /\ rpc' = [rpc EXCEPT ![r] = "inflight"]
         /\ apiSends' = [apiSends EXCEPT ![r] = @ + 1]
         /\ UNCHANGED <<rejected, changed, refreshedTok, nRefresh, final>>
    [] tpc'[r] = "failed" ->
         \* the exception of get_token leaves authorize and request()
         /\ rpc' = [rpc EXCEPT ![r] = "raised"]
         /\ UNCHANGED <<last, attached, rejected, changed, refreshedTok,
                        nRefresh, apiSends, final>>
    [] OTHER ->
         /\ rpc' = [rpc EXCEPT ![r] = "authorizing"]
         /\ UNCHANGED <<last, attached, rejected, changed, refreshedTok,
                        nRefresh, apiSends, final>>

\* bearer.py lines 84-87 once the refresh() awaited by on_unauthorized has
\* moved for request r; transport.py lines 132-136 act on the result
OnUnauthorizedReturns(r) ==
  CASE tpc'[r] = "done" ->
         /\ changed' = [changed EXCEPT ![r] =
                          IF TokenChanged(ret'[r], last) THEN "true"
                                                         ELSE "false"]
         /\ last' = ret'[r]
         /\ refreshedTok' = [refreshedTok EXCEPT ![r] = ret'[r]]
         /\ IF TokenChanged(ret'[r], last)
            THEN /\ rpc' = [rpc EXCEPT ![r] = "reauth"]
                 /\ UNCHANGED final
            ELSE /\ rpc' = [rpc EXCEPT ![r] = "returned"]
                 /\ final' = [final EXCEPT ![r] = 401]
         /\ UNCHANGED <<attached, rejected, nRefresh, apiSends>>
    [] tpc'[r] = "failed" ->
         \* except Exception: refreshed = False; the 401 is returned
         /\ changed' = [changed EXCEPT ![r] = "raise"]
         /\ rpc' = [rpc EXCEPT ![r] = "returned"]
         /\ final' = [final EXCEPT ![r] = 401]
         /\ UNCHANGED <<last, attached, rejected, refreshedTok, nRefresh,
                        apiSends>>
    [] OTHER ->
         UNCHANGED bvars

\* the policy method of request r that awaits the provider goes on
PolicyGoesOn(r) ==
  IF rpc[r] = "authorizing" THEN AuthorizeReturns(r)
  ELSE IF rpc[r] = "refreshing" THEN OnUnauthorizedReturns(r)
  ELSE UNCHANGED bvars

\* transport.py lines 96-98: the first authorize of request r
Authorize(r) ==
  /\ ~Urgent
  /\ rpc[r] = "new"
  /\ CallFrom(r, AuthorizeVia, "idle")
  /\ AuthorizeReturns(r)

\* transport.py lines 139-140: req = build(); await auth.authorize(req)
Reauthorize(r) ==
  /\ rpc[r] = "reauth"
  /\ CallFrom(r, AuthorizeVia, "done")
  /\ AuthorizeReturns(r)

\* transport.py lines 108, 130-147, 182: the protected endpoint answers the
\* send of request r; a first 401 calls on_unauthorized()
Answered(r) ==
  /\ ~Urgent
  /\ rpc[r] = "inflight"
  /\ \E status \in {200, 401} :
       IF status = 401 /\ changed[r] = "none"
       THEN /\ CallFrom(r, "refresh", "done")
            /\ rpc' = [rpc EXCEPT ![r] = "refreshing"]
            /\ rejected' = [rejected EXCEPT ![r] = attached[r]]
            /\ nRefresh' = [nRefresh EXCEPT ![r] = @ + 1]
            /\ UNCHANGED <<last, attached, changed, refreshedTok, apiSends,
                           final>>
       ELSE /\ rpc' = [rpc EXCEPT ![r] = "returned"]
            /\ final' = [final EXCEPT ![r] = status]
            /\ UNCHANGED <<last, attached, rejected, changed, refreshedTok,
                           nRefresh, apiSends>>
            /\ UNCHANGED pvars
            /\ UNCHANGED tvars

\* the provider lets the waiting call of request r into the lock
LockGranted(r) ==
  /\ ~Urgent
  /\ Resume(r)
  /\ PolicyGoesOn(r)

\* the token endpoint answered the fetch of request r
TokenIssued(r) ==
  /\ ~Urgent
  /\ FetchOk(r)
  /\ PolicyGoesOn(r)

\* the fetch of request r failed
TokenDenied(r) ==
  /\ ~Urgent
  /\ FetchFails(r)
  /\ PolicyGoesOn(r)

\* time passes between the steps of the tasks
TimePasses ==
  /\ ~Urgent
  /\ Tick
  /\ UNCHANGED bvars

\* AsyncGavaConnect.__init__: one provider with early_refresh_s = 60 and one
\* BearerAuthPolicy for all requests of the checkers client
BearerInit ==
  /\ ProviderConstructed
  /\ PolicyConstructed
  /\ NoHelperCall
  /\ early = 60
  /\ cfg = [max_attempts |-> 1, retry_on_status |-> {}, has_max_cap |-> FALSE]
  /\ method = "GET"
  /\ headers = {}
  /\ auth = "bearer"
  /\ hooks = 0
  /\ RequestEntered

BearerNext ==
  \/ \E r \in Requests : Authorize(r) /\ UNCHANGED fvars
  \/ \E r \in Requests : Reauthorize(r) /\ UNCHANGED fvars
  \/ \E r \in Requests : Answered(r) /\ UNCHANGED fvars
  \/ \E r \in Requests : LockGranted(r) /\ UNCHANGED fvars
  \/ \E r \in Requests : TokenIssued(r) /\ UNCHANGED fvars
  \/ \E r \in Requests : TokenDenied(r) /\ UNCHANGED fvars
  \/ TimePasses /\ UNCHANGED fvars

BearerSpec == BearerInit /\ [][BearerNext]_vars

(***************************************************************************)
(* The pure helpers, each followed over one call: HelperSpec draws the     *)
(* helper and its arguments and applies it.  Durations are in              *)
(* milliseconds.                                                           *)
(***************************************************************************)
Min(a, b) == IF a <= b THEN a ELSE b

\* the random source is sampled at k / SampleSteps of its range
SampleSteps == 2
Samples == 0..SampleSteps

\* random.uniform(a, b) = a + (b - a) * random(), sampled at k
uniform(a, b, k) == a + ((b - a) * k) \div SampleSteps

\* variant: the exponential is not capped
max_sleep_uncapped(base, n, cap) == base * (2 ^ n)

\* idempotency.py line 28: max_sleep = min(cap, base * (2**attempt)), n the
\* attempt passed
max_sleep(base, n, cap) == Min(cap, base * (2 ^ n))

\* variant: the range of the backoff is the cap alone
full_jitter_capOnly(base, n, cap, k) == uniform(0, cap, k)

\* idempotency.py lines 26-29: _full_jitter
full_jitter(base, n, cap, k) ==
  uniform(0, max_sleep(base, n, cap), k)

\* variant: the hinted delay is cut at the cap of the policy
RetryDelay_capped(ra, policy, n, k) ==
  IF ra = None
  THEN IF policy.has_max_cap
       THEN [kind |-> "backoff",
             delay |-> full_jitter(policy.base_backoff, n,
                                   policy.max_cap, k)]
       ELSE [kind |-> "AttributeError", delay |-> None]
  ELSE LET wiggle == ra \div 10 IN
       [kind |-> "hint",
        delay |-> Min(policy.max_cap,
                      Max(0, uniform(Max(0, ra - wiggle), ra + wiggle, k)))]

\* transport.py lines 156-168: the delay slept before a status retry.  ra
\* is what _parse_retry_after returned, policy the RetryPolicy in use; the
\* cap is read from the policy only when there is no hint.
RetryDelay(ra, policy, n, k) ==
  IF ra = None
  THEN IF policy.has_max_cap
       THEN [kind |-> "backoff",
             delay |-> full_jitter(policy.base_backoff, n,
                                   policy.max_cap, k)]
       ELSE [kind |-> "AttributeError", delay |-> None]
  ELSE LET wiggle == ra \div 10 IN
       [kind |-> "hint",
        delay |-> Max(0, uniform(Max(0, ra - wiggle), ra + wiggle, k))]

\* arguments drawn for _can_retry
ArgMethods == {"GET", "get", "HEAD", "OPTIONS", "DELETE", "Delete", "POST",
               "post", "PUT", "PATCH", "FOO", "foo"}
ArgHeaderSets == SUBSET {"Idempotency-Key", "idempotency-key",
                         "IDEMPOTENCY-KEY", "Idempotency_Key", "X-Trace"}

\* arguments drawn for _full_jitter and the retry delay
Bases == {0, 200, 1000}
Caps == {0, 500, 8000}
JitterAttempts == 1..MaxJitterAttempt
ParsedHints == {None, 0, 2000}
Policies == [has_max_cap : BOOLEAN, base_backoff : Bases, max_cap : Caps]

\* a string-valued field that is missing, or None
Absent == "<absent>"

\* resp.text, the raw body
RawText == "<raw text>"

\* the error member of a JSON object body: missing, a JSON object with
\* some of type / message / code / retry_after, a JSON string, or null
ErrorObjects ==
  [shape : {"object"},
   type : {Absent, "", "rate_limited"},
   message : {Absent, "slow down"},
   code : {Absent, "E42"},
   retry_after : {None, 2}]
ErrorMembers ==
  ErrorObjects \cup
  {[shape |-> sh, type |-> Absent, message |-> Absent, code |-> Absent,
    retry_after |-> None] : sh \in {"absent", "string", "null"}}

\* response bodies: not JSON, JSON that is not an object, a JSON object
Bodies ==
  {[json |-> j, error |-> [shape |-> "absent", type |-> Absent,
                           message |-> Absent, code |-> Absent,
                           retry_after |-> None]] : j \in {"invalid", "scalar"}}
  \cup [json : {"object"}, error : ErrorMembers]

ErrorStatuses == {200, 399, 400, 429, 500}
Responses4xx == [status : ErrorStatuses, body : Bodies,
                 rid : {Absent, "req-1"}]

\* variant: a missing or empty value is passed on as it is
OrDefault_keep(v, dflt) == v

\* transport.py lines 210-211: err.get(...) or default
OrDefault(v, dflt) == IF v \in {Absent, ""} THEN dflt ELSE v

\* the exception raise_for_api_error leaves with, or none
Outcome(cls, status, typ, msg, code, rid, ra) ==
  [raises |-> cls, status |-> status, type |-> typ, message |-> msg,
   code |-> code, request_id |-> rid, retry_after |-> ra]

\* transport.py lines 185-221: raise_for_api_error
raise_for_api_error(resp) ==
  IF resp.status < 400
  THEN Outcome("none", None, Absent, Absent, Absent, Absent, None)
  ELSE IF resp.body.json # "object"
  THEN \* resp.json() raised, or body.get raised on a non-object: both
       \* inside the try of lines 199-201
       Outcome("APIError", resp.status, "api_error", RawText, Absent,
               resp.rid, None)
  ELSE LET err == resp.body.error IN
       IF err.shape \in {"string", "null"}
       THEN \* err.get(...) at line 210, outside the try: str and None have
            \* no get
            Outcome("AttributeError", None, Absent, Absent, Absent, Absent,
                    None)
       ELSE Outcome(IF resp.status = 429 THEN "RateLimitError"
                                         ELSE "APIError",
                    resp.status,
                    OrDefault(err.type, "api_error"),
                    OrDefault(err.message, RawText),
                    err.code,
                    resp.rid,
                    err.retry_after)

CallRaiseForApiError ==
  /\ fn = "raise_for_api_error"
  /\ ~fdone
  /\ out' = raise_for_api_error(arg)
  /\ fdone' = TRUE
  /\ UNCHANGED <<fn, arg>>
  /\ UNCHANGED <<tvars, pvars, bvars>>

CallCanRetry ==
  /\ fn = "can_retry"
  /\ ~fdone
  /\ out' = can_retry(arg.method, arg.headers)
  /\ fdone' = TRUE
  /\ UNCHANGED <<fn, arg>>
  /\ UNCHANGED <<tvars, pvars, bvars>>

CallFullJitter ==
  /\ fn = "full_jitter"
  /\ ~fdone
  /\ \E k \in Samples : out' = full_jitter(arg.base, arg.attempt, arg.cap, k)
  /\ fdone' = TRUE
  /\ UNCHANGED <<fn, arg>>
  /\ UNCHANGED <<tvars, pvars, bvars>>

CallRetryDelay ==
  /\ fn = "retry_delay"
  /\ ~fdone
  /\ \E k \in Samples : out' = RetryDelay(arg.ra, arg.policy, arg.attempt, k)
  /\ fdone' = TRUE
  /\ UNCHANGED <<fn, arg>>
  /\ UNCHANGED <<tvars, pvars, bvars>>

\* Retry-After header values: absent, the empty string, a string float()
\* accepts (a number of milliseconds here, or nan), an HTTP-date (the
\* instant it names, with or without a zone), anything else
HeaderValue(kind, num, at, tz) ==
  [kind |-> kind, num |-> num, at |-> at, tz |-> tz]
HeaderNumbers == {-5000, 0, 30000}
Instants == {10000, 40000}
RetryAfterValues ==
  {HeaderValue(k, 0, 0, "none") : k \in {"absent", "empty", "nan", "garbage"}}
  \cup {HeaderValue("number", n, 0, "none") : n \in HeaderNumbers}
  \cup {HeaderValue("date", 0, d, tz) : d \in Instants, tz \in {"GMT", "naive"}}

\* variant: a negative number of seconds is clamped to zero
parse_retry_after_clamped(v, now) ==
  IF v.kind \in {"absent", "empty"}
  THEN None
  ELSE IF v.kind = "number"
  THEN Max(0, v.num)
  ELSE IF v.kind = "date"
  THEN Max(0, v.at - now)
  ELSE None

\* idempotency.py lines 32-52: _parse_retry_after.  float() accepts numbers
\* and nan; a result that is not >= 0 falls through to the date parser,
\* which fails on everything but a date; a date without zone is read as UTC.
parse_retry_after(v, now) ==
  IF v.kind \in {"absent", "empty"}
  THEN None
  ELSE IF v.kind = "number" /\ v.num >= 0
  THEN v.num
  ELSE IF v.kind = "date"
  THEN Max(0, v.at - now)
  ELSE None

CallParseRetryAfter ==
  /\ fn = "parse_retry_after"
  /\ ~fdone
  /\ out' = parse_retry_after(arg.value, arg.now)
  /\ fdone' = TRUE
  /\ UNCHANGED <<fn, arg>>
  /\ UNCHANGED <<tvars, pvars, bvars>>

HelperInit ==
  /\ ProviderConstructed
  /\ PolicyConstructed
  /\ early = 60
  /\ cfg = [max_attempts |-> 1, retry_on_status |-> {}, has_max_cap |-> FALSE]
  /\ method = "GET"
  /\ headers = {}
  /\ auth = "none"
  /\ hooks = 0
  /\ RequestEntered
  /\ fdone = FALSE
  /\ out = None
  /\ \/ /\ fn = "can_retry"
        /\ arg \in [method : ArgMethods, headers : ArgHeaderSets]
     \/ /\ fn = "full_jitter"
        /\ arg \in [base : Bases, attempt : JitterAttempts, cap : Caps]
     \/ /\ fn = "retry_delay"
        /\ arg \in [ra : ParsedHints, policy : Policies,
                    attempt : JitterAttempts]
     \/ /\ fn = "raise_for_api_error"
        /\ arg \in Responses4xx
     \/ /\ fn = "parse_retry_after"
        /\ arg \in [value : RetryAfterValues, now : Instants]

HelperNext ==
  \/ CallCanRetry
  \/ CallFullJitter
  \/ CallRetryDelay
  \/ CallRaiseForApiError
  \/ CallParseRetryAfter

HelperSpec == HelperInit /\ [][HelperNext]_vars

(***************************************************************************)
(* Properties of AsyncTransport.request (checked under Spec).              *)
(***************************************************************************)
Sends == Len(sent)
Done == pc \in {"returned", "raised"}

\* C1 (as stated): one call resends at most max_attempts times, the 401
\* refresh resend included: never more than max_attempts + 1 sends.  Stated
\* here for the RetryPolicy of config.py (no max_cap_s field) and for calls
\* in which on_unauthorized() ran at most once.
C1_AtMostMaxAttemptsResends ==
  (~cfg.has_max_cap /\ nOnUnauthorized <= 1)
    => Sends <= cfg.max_attempts + 1

\* C1 (amended): at most max_attempts resends follow a sleep (network error
\* or retryable status), at most one more resend follows a 401 refresh, and
\* every resend is one of the two: at most max_attempts + 1 resends.
C1_ResendsBounded ==
  /\ Len(sleeps) <= cfg.max_attempts
  /\ attempt - 1 = Len(sleeps) + (IF did_refresh THEN 1 ELSE 0)
  /\ Sends <= attempt
  /\ Sends <= cfg.max_attempts + 2

C1_Witness ==
  /\ pc = "returned"
  /\ ~cfg.has_max_cap
  /\ Sends = cfg.max_attempts + 2
  /\ did_refresh
  /\ Len(sleeps) = cfg.max_attempts

\* C2: within one call auth.on_unauthorized() is invoked at most once, for
\* every retry_on_status set, here for the RetryPolicy of config.py.
C2_RefreshAtMostOnce ==
  ~cfg.has_max_cap => nOnUnauthorized <= 1

\* C7: a 401 whose on_unauthorized() returned true is followed at once by a
\* rebuild, one more authorize and the resend, without a sleep; and a call
\* whose sends were answered [401, 200] with a refresh ends with exactly two
\* authorize calls, one on_unauthorized call, no sleep and the 200 response.
C7_Scenario ==
  (/\ pc = "returned"
   /\ Sends = 2
   /\ sent[1].status = 401
   /\ sent[2].status = 200
   /\ did_refresh)
  => /\ nAuthorize = 2
     /\ nOnUnauthorized = 1
     /\ sleeps = <<>>
     /\ result = 200

C7_RefreshResendsAtOnce ==
  [][/\ (pc = "send" /\ lastUnauth' = "true")
        => /\ sleeps' = sleeps
           /\ nAuthorize' = nAuthorize + 1
           /\ attempt' = attempt + 1
           /\ did_refresh'
           /\ \/ pc' = "send"
              \/ pc' = "raised" /\ exc' = "AuthorizeError"
     /\ C7_Scenario']_vars

C7_Witness ==
  /\ pc = "returned"
  /\ sent = <<Resp(401, None), Resp(200, None)>>
  /\ did_refresh
  /\ nAuthorize = 2
  /\ nOnUnauthorized = 1
  /\ sleeps = <<>>
  /\ result = 200

\* C8: when on_unauthorized() returned false (BasicAuthPolicy always does)
\* and 401 is not in retry_on_status, that 401 response is returned right
\* after its send: no resend, no sleep, no exception.
C8_Unrecoverable401Returned ==
  [][/\ (pc = "send" /\ lastUnauth' = "false" /\ 401 \notin cfg.retry_on_status)
        => /\ pc' = "returned"
           /\ result' = 401
           /\ exc' = "none"
           /\ sleeps' = sleeps
           /\ attempt' = attempt
           /\ nAuthorize' = nAuthorize
     /\ (auth = "basic" /\ nOnUnauthorized' # nOnUnauthorized)
        => lastUnauth' = "false"]_vars

C8_Witness ==
  /\ pc = "returned"
  /\ auth = "basic"
  /\ lastUnauth = "false"
  /\ 401 \notin cfg.retry_on_status
  /\ result = 401
  /\ Sends = 1

C10_OnlyTransportError ==
  pc = "raised" => exc = "TransportError"

\* C10 (amended): a call ends by returning a response or by raising; a
\* network error of send leaves only as TransportError, exceptions of hooks
\* and of on_unauthorized never leave, and the other exceptions leave
\* unwrapped: one raised by authorize, one raised by send that is not an
\* httpx.HTTPError, and the AttributeError of a RetryPolicy without
\* max_cap_s.
C10_EscapingExceptions ==
  /\ pc = "returned" => (exc = "none" /\ result \in Statuses)
  /\ pc = "raised" =>
       /\ result = None
       /\ exc \in {"TransportError", "AuthorizeError", "SendError",
                   "AttributeError"}
       /\ exc = "TransportError" => sent[Sends].kind = "neterr"
       /\ exc = "SendError" => sent[Sends].kind = "crash"
       /\ exc = "AuthorizeError" => auth = "bearer"
       /\ exc = "AttributeError" => ~cfg.has_max_cap

C10_Witness ==
  /\ pc = "raised"
  /\ exc = "TransportError"
  /\ nSwallowed > 0
  /\ lastUnauth = "none"
  /\ nOnUnauthorized = 1

\* the last send ended in a network error
AfterNetErr == Sends >= 1 /\ sent[Sends].kind = "neterr"

\* the last send was answered and the answer was not followed by a
\* successful credential refresh
AfterStatus == Sends >= 1 /\ sent[Sends].kind = "resp" /\ lastUnauth # "true"

\* C11: after a network error of send the call raises TransportError exactly
\* when the attempt counter exceeded max_attempts or the request is not
\* retry-eligible; otherwise it has slept one backoff, incremented the
\* attempt and is about to resend (an exception of the new authorize call
\* aside).  A non-eligible request that was never refreshed raises
\* TransportError after one send and no sleep.
C11_NetworkErrorWrappedOrRetried ==
  /\ (AfterNetErr /\ exc # "AuthorizeError") =>
        \/ /\ pc = "raised"
           /\ exc = "TransportError"
           /\ (attempt > cfg.max_attempts \/ ~can_retry(method, headers))
        \/ /\ pc = "send"
           /\ attempt - 1 <= cfg.max_attempts
           /\ can_retry(method, headers)
           /\ sleeps # <<>>
           /\ sleeps[Len(sleeps)] = "backoff"
  /\ (AfterNetErr /\ ~can_retry(method, headers) /\ ~did_refresh) =>
        /\ pc = "raised"
        /\ exc = "TransportError"
        /\ Sends = 1
        /\ sleeps = <<>>

\* C12: a response whose status is in retry_on_status is followed by a sleep
\* and a resend exactly when attempt <= max_attempts and the request is
\* retry-eligible; in every other case the response is returned and nothing
\* is raised for a status (responses followed by a successful 401 refresh
\* and an exception of the new authorize call aside).
C12_StatusRetriedOrReturned ==
  (AfterStatus /\ exc # "AuthorizeError") =>
     \/ /\ pc = "send"
        /\ sent[Sends].status \in cfg.retry_on_status
        /\ attempt - 1 <= cfg.max_attempts
        /\ can_retry(method, headers)
        /\ sleeps # <<>>
     \/ /\ pc = "returned"
        /\ result = sent[Sends].status
        /\ exc = "none"
        /\ ~ShouldRetry(sent[Sends].status)

\* C13: with a retry-eligible request, while the first k <= max_attempts
\* sends all raised a network error the call has slept k backoffs and is
\* about to send again; when the next send is answered with a status that
\* is not retried the call returns it after k + 1 sends and k sleeps.
C13_NetworkErrorsThenSuccess ==
  LET neterrs == {i \in 1..Sends : sent[i].kind = "neterr"} IN
  /\ (/\ can_retry(method, headers)
      /\ Sends >= 1
      /\ Sends <= cfg.max_attempts
      /\ neterrs = 1..Sends
      /\ exc # "AuthorizeError")
     => /\ pc = "send"
        /\ Len(sleeps) = Sends
        /\ \A i \in 1..Sends : sleeps[i] = "backoff"
  /\ (/\ pc = "returned"
      /\ Sends >= 2
      /\ neterrs = 1..(Sends - 1))
     => Len(sleeps) = Sends - 1

\* C14: every registered request hook runs on the rebuilt and authorized
\* request before each send, the resend after a network error included: a
\* call about to send has run each hook once more than it has sent, and a
\* finished call has run each hook once per send.
C14_RequestHooksBeforeEverySend ==
  /\ pc = "send" => nReqHook = hooks * (Sends + 1)
  /\ Done => nReqHook = hooks * Sends

\* the sends that were answered with a response
Responses == {i \in 1..Sends : sent[i].kind = "resp"}

\* C15: every response of a send, retried or not, is passed once to every
\* response hook within the step that receives it, whatever that step then
\* decides (refresh, retry, return or raise); a send that ends in a network
\* error invokes no response hook.
C15_ResponseHooksSeeEveryResponse ==
  nRespHook = hooks * Cardinality(Responses)

C15_Witness ==
  /\ pc = "returned"
  /\ hooks = 2
  /\ Sends = 4
  /\ sent[1].kind = "neterr"
  /\ sent[2].status = 429
  /\ sent[3].status = 401
  /\ did_refresh
  /\ result = 200
  /\ nRespHook = 6

\* what a step of request() comes to when no hook is registered
C16_HookFreeStep ==
  \/ /\ pc = "start"
     /\ \/ pc' = "send"
        \/ pc' = "raised" /\ exc' = "AuthorizeError"
  \/ /\ pc = "send"
     /\ sent'[Len(sent')].kind = "resp"
     /\ LET s == sent'[Len(sent')].status IN
        IF lastUnauth' = "true"
        THEN /\ attempt' = attempt + 1
             /\ sleeps' = sleeps
             /\ \/ pc' = "send"
                \/ pc' = "raised" /\ exc' = "AuthorizeError"
        ELSE IF ShouldRetry(s)
        THEN \/ /\ pc' = "send"
                /\ attempt' = attempt + 1
                /\ Len(sleeps') = Len(sleeps) + 1
             \/ /\ pc' = "raised"
                /\ exc' \in {"AttributeError", "AuthorizeError"}
        ELSE /\ pc' = "returned"
             /\ result' = s
             /\ attempt' = attempt
             /\ sleeps' = sleeps

\* C16: an exception of a request hook or response hook never leaves
\* request(); in a step in which one was swallowed every registered hook of
\* that kind was still invoked, and the step sends, retries, returns or
\* raises as it does when no hook is registered.
C16_HookExceptionsSwallowed ==
  [][/\ exc' # "HookError"
     /\ (nSwallowed' > nSwallowed) =>
          /\ nReqHook' - nReqHook \in {0, hooks}
          /\ nRespHook' - nRespHook \in {0, hooks}
          /\ nReqHook' + nRespHook' > nReqHook + nRespHook
          /\ C16_HookFreeStep]_vars

C16_Witness ==
  /\ pc = "returned"
  /\ hooks = 2
  /\ Sends = 2
  /\ nSwallowed = 3
  /\ nReqHook = 4
  /\ nRespHook = 4
  /\ result = 200

(***************************************************************************)
(* Properties of the token providers (checked under ProviderSpec).         *)
(***************************************************************************)
Stores == Len(storeAt)
Fetching == {t \in Tasks : tpc[t] = "fetching"}
Fetchers == {t \in Tasks : fetchedBy[t]}
\* expires_in (or its default) of the response that filled the cache
CachedTtl == upstream - storeAt[Stores]

\* C3 (as stated): the cached expiry is never later than fetch time +
\* expires_in, so the cache never holds a token as valid that the upstream
\* already expired.
C3_ExpiryNotAfterUpstream ==
  token # "" => exp <= upstream

\* C3 (amended): when expires_in >= MIN_TOKEN_TTL_S (and early_refresh_s >=
\* 0) the cached expiry is no later than fetch time + expires_in; when
\* expires_in < MIN_TOKEN_TTL_S the cached expiry is fetch time +
\* MIN_TOKEN_TTL_S, which is later than the upstream expiry.
C3_ExpiryWithinLifetimeAboveFloor ==
  (token # "" /\ early >= 0) =>
     /\ CachedTtl >= MIN_TOKEN_TTL_S => exp <= upstream
     /\ CachedTtl < MIN_TOKEN_TTL_S =>
          (exp = storeAt[Stores] + MIN_TOKEN_TTL_S /\ exp > upstream)

C3_Witness ==
  /\ token # ""
  /\ early > 0
  /\ CachedTtl >= MIN_TOKEN_TTL_S
  /\ exp < upstream
  /\ \E t \in Tasks :
       tpc[t] = "done" /\ op[t] = "get_token" /\ ~fetchedBy[t] /\ ret[t] = token

\* C4: a get_token() that finds a non-empty cached token with now < expiry
\* returns it without a fetch; otherwise (expired or empty cache) it does
\* exactly one fetch, whose result replaces the cache and is returned.
C4_CachedUntilExpiry ==
  [][\A t \in Tasks :
       /\ (op'[t] = "get_token" /\ tpc[t] \in {"idle", "waiting"}
             /\ tpc'[t] \in {"done", "fetching"})
          => IF token # "" /\ clock < exp
             THEN /\ tpc'[t] = "done"
                  /\ ret'[t] = token
                  /\ nFetch' = nFetch
                  /\ ~fetchedBy'[t]
                  /\ <<token', exp'>> = <<token, exp>>
             ELSE /\ tpc'[t] = "fetching"
                  /\ nFetch' = nFetch + 1
       /\ (op[t] = "get_token" /\ tpc[t] = "fetching" /\ tpc'[t] = "done")
          => /\ nFetch' = nFetch
             /\ ret'[t] = token'
             /\ token' \in Tokens
             /\ exp' > clock]_vars

C4_Witness ==
  \E t, u, v \in Tasks :
    /\ \A w \in {t, u, v} : tpc[w] = "done" /\ op[w] = "get_token"
    /\ fetchedBy[t] /\ stale[t]
    /\ ~fetchedBy[u] /\ ~stale[u]
    /\ fetchedBy[v] /\ stale[v] /\ v # t
    /\ Stores = 2
    /\ storeAt[2] >= storeAt[1] + MIN_TOKEN_TTL_S

\* C5: at most one token-endpoint fetch is in flight at any time, under
\* every interleaving of get_token() and refresh() calls.
C5_OneFetchInFlight ==
  Cardinality(Fetching) <= 1

C5_Witness ==
  \E t, u, v \in Tasks :
    /\ tpc[t] = "fetching" /\ op[t] = "get_token"
    /\ tpc[u] = "waiting" /\ op[u] = "refresh"
    /\ tpc[v] = "waiting" /\ op[v] = "get_token"
    /\ waiters = <<u, v>>

\* C6: when every task calls get_token() on a cache that is empty or
\* expired at its call, all calls have returned and the fetched token has
\* not had the time to expire meanwhile, exactly one fetch was made and
\* every call returned its token; more generally, as long as only
\* get_token() is called, a further fetch is made only once the token of
\* the previous one has expired.
C6_OneFetchServesAll ==
  /\ (/\ \A t \in Tasks : op[t] = "get_token" /\ tpc[t] = "done" /\ stale[t]
      /\ Stores >= 1
      /\ clock - storeAt[1] < MIN_TOKEN_TTL_S)
     => /\ nFetch = 1
        /\ Cardinality(Fetchers) = 1
        /\ \A t \in Tasks : ret[t] = token
  /\ (\A t \in Tasks : op[t] # "refresh")
     => \A i \in 1..(Stores - 1) :
          storeAt[i + 1] >= storeAt[i] + MIN_TOKEN_TTL_S

C6_Witness ==
  /\ \A t \in Tasks : op[t] = "get_token" /\ tpc[t] = "done" /\ stale[t]
  /\ nFetch = 1
  /\ \A t \in Tasks : ret[t] = token
  /\ clock > storeAt[1]

\* C20: refresh() never returns from the cache: once it holds the lock it
\* makes one fetch, also when the cached token is unexpired and when another
\* caller's fetch completed while it waited, and the fetch that succeeds
\* replaces the cached token and expiry by its result; the fetches of
\* concurrent refresh() calls are made one at a time, k calls making k.
C20_OneFetchPerRefresh ==
  LET R == {t \in Tasks : op[t] = "refresh"
                          /\ tpc[t] \in {"fetching", "done", "failed"}} IN
  /\ R \subseteq Fetchers
  /\ nFetch = Cardinality(Fetchers)
  /\ Cardinality(Fetching) <= 1
  /\ (\A t \in Tasks : op[t] = "refresh" /\ tpc[t] = "done")
       => (nFetch = NumTasks /\ Stores = NumTasks)

C20_RefreshAlwaysFetches ==
  [][/\ \A t \in Tasks :
          /\ (/\ op'[t] = "refresh"
              /\ tpc[t] \in {"idle", "waiting"}
              /\ tpc'[t] # tpc[t])
             => /\ tpc'[t] \in {"waiting", "fetching"}
                /\ tpc'[t] = "fetching" => (nFetch' = nFetch + 1 /\ locked')
          /\ (op[t] = "refresh" /\ tpc[t] = "fetching" /\ tpc'[t] = "done")
             => /\ token' = ret'[t]
                /\ exp' >= clock + MIN_TOKEN_TTL_S
                /\ storeAt' = Append(storeAt, clock)
                /\ nFetch' = nFetch
     /\ C20_OneFetchPerRefresh']_vars

C20_Witness ==
  /\ \E t \in Tasks :
       /\ op[t] = "refresh"
       /\ tpc[t] = "fetching"
       /\ stale[t]
       /\ CacheUsable
  /\ \E u \in Tasks : op[u] = "refresh" /\ tpc[u] = "done" /\ ret[u] = token
  /\ nFetch = 2

\* C21: when the token endpoint answers non-2xx the fetch raises to the
\* task that called get_token() or refresh(), the lock is released, and
\* the provider's token and expiry keep the values they had before.
C21_FailedFetchKeepsCache ==
  [][\A t \in Tasks :
       (tpc[t] = "fetching" /\ tpc'[t] = "failed")
       => /\ token' = token
          /\ exp' = exp
          /\ ret'[t] = ret[t]
          /\ ~locked'
          /\ storeAt' = storeAt]_vars

C21_Witness ==
  \E t, u \in Tasks :
    /\ tpc[t] = "failed"
    /\ tpc[u] = "done"
    /\ Stores = 1
    /\ nFetch = 2
    /\ token = ret[u]
    /\ exp = storeAt[1] + MIN_TOKEN_TTL_S

\* C22: the pair (token, expiry) is ("", 0) until the first fetch has
\* completed; afterwards every step leaves both unchanged or is the
\* completion of one fetch, which replaces both by the pair it produced:
\* never one without the other, also when fetches fail in between.
C22_PairReplacedTogether ==
  [][/\ (Stores' = 0) => (token' = "" /\ exp' = 0)
     /\ \/ token' = token /\ exp' = exp /\ Stores' = Stores
        \/ \E t \in Tasks :
             /\ tpc[t] = "fetching"
             /\ tpc'[t] = "done"
             /\ Stores' = Stores + 1
             /\ token' = ret'[t]
             /\ \E e \in ExpiresInChoices : exp' = fetch_expiry(clock, e)
             /\ exp' = clock + Max(MIN_TOKEN_TTL_S, upstream' - clock - early)
     ]_vars

C22_Witness ==
  /\ Stores = 2
  /\ \E t \in Tasks : tpc[t] = "failed"
  /\ token # ""
  /\ exp = storeAt[2] + Max(MIN_TOKEN_TTL_S, CachedTtl - early)
  /\ storeAt[2] > storeAt[1]

(***************************************************************************)
(* Properties of the shared BearerAuthPolicy (checked under BearerSpec).   *)
(***************************************************************************)

\* C17: under every interleaving of the requests that share the policy,
\* on_unauthorized() returns true for a request only if the token its
\* refresh returned differs from the token that request had attached to
\* the attempt answered 401.
C17_TrueOnlyIfChangedForRequest ==
  \A r \in Requests :
    changed[r] = "true" => refreshedTok[r] # rejected[r]

\* C18: when authorize returns, the request carries the token get_token()
\* returned and that token is last seen; on_unauthorized() makes one
\* provider.refresh() call, returns true exactly when the token it returned
\* differs from last seen as it was then, and leaves that token as last
\* seen; nothing else writes last seen.
C18_PolicyRecordsLastSeen ==
  [][/\ \A r \in Requests :
          /\ (rpc[r] \in {"new", "authorizing", "reauth"}
                /\ rpc'[r] = "inflight")
             => /\ op'[r] = "get_token"
                /\ attached'[r] = ret'[r]
                /\ last' = ret'[r]
          /\ (rpc[r] = "refreshing" /\ tpc'[r] = "done")
             => /\ op[r] = "refresh"
                /\ nRefresh'[r] = 1
                /\ changed'[r] \in {"true", "false"}
                /\ changed'[r] = "true" <=> ret'[r] # last
                /\ last' = ret'[r]
                /\ rpc'[r] = (IF ret'[r] # last THEN "reauth" ELSE "returned")
     /\ last' # last =>
          \E r \in Requests :
            /\ tpc'[r] = "done"
            /\ \/ rpc'[r] = "inflight" /\ apiSends'[r] = apiSends[r] + 1
               \/ rpc[r] = "refreshing"]_vars

C18_Witness ==
  \E r, q \in Requests :
    /\ changed[r] = "true"
    /\ changed[q] = "false"
    /\ rpc[q] = "returned"
    /\ last = refreshedTok[q]
    /\ attached[r] = last

\* only request r has used the policy so far
OnlyRequest(r) == \A q \in Requests \ {r} : rpc[q] = "new"

\* C19: the authorize that follows a true on_unauthorized() finds, unless
\* another task is queued on the provider lock, the refreshed token in the
\* cache: no fetch is made and the resend carries the token that refresh
\* returned.  For a request that has the policy to itself and starts from
\* an empty cache, the resend carries the refreshed token, which differs
\* from the rejected one, the token endpoint was contacted twice and the
\* protected endpoint twice.
C19_ResendState ==
  \A r \in Requests :
    (/\ OnlyRequest(r)
     /\ changed[r] = "true"
     /\ rpc[r] # "reauth")
    => /\ rpc[r] \in {"inflight", "returned"}
       /\ attached[r] = refreshedTok[r]
       /\ attached[r] # rejected[r]
       /\ nFetch = 2
       /\ apiSends[r] = 2

C19_ResendCarriesRefreshedToken ==
  [][/\ \A r \in Requests :
          (rpc[r] = "reauth" /\ LockFree)
          => /\ rpc'[r] = "inflight"
             /\ attached'[r] = refreshedTok[r]
             /\ nFetch' = nFetch
             /\ apiSends'[r] = apiSends[r] + 1
     /\ C19_ResendState']_vars

C19_Witness ==
  \E r \in Requests :
    /\ OnlyRequest(r)
    /\ rpc[r] = "returned"
    /\ final[r] = 200
    /\ changed[r] = "true"
    /\ attached[r] = refreshedTok[r]
    /\ attached[r] # rejected[r]
    /\ nFetch = 2
    /\ apiSends[r] = 2

(***************************************************************************)
(* Properties of the pure helpers (checked under HelperSpec).              *)
(***************************************************************************)

\* C23: raise_for_api_error returns normally exactly when status < 400; for
\* every status >= 400, whatever the body, it raises APIError or its
\* subclass RateLimitError carrying the response status.
C23_RaisesApiErrorFrom400 ==
  (fn = "raise_for_api_error" /\ fdone) =>
     IF arg.status < 400
     THEN out.raises = "none"
     ELSE /\ out.raises \in {"APIError", "RateLimitError"}
          /\ out.status = arg.status

\* C24: raise_for_api_error raises RateLimitError exactly when the status
\* is 429, for every body, a body that is not valid JSON included, and a
\* plain APIError for every other status >= 400 (stated for the calls that
\* end in one of the two).
C24_RateLimitErrorIff429 ==
  (/\ fn = "raise_for_api_error"
   /\ fdone
   /\ arg.status >= 400
   /\ out.raises # "AttributeError")
  => /\ out.raises \in {"APIError", "RateLimitError"}
     /\ out.raises = "RateLimitError" <=> arg.status = 429

\* C25: the error raised has type "api_error" and the raw text as message
\* whenever the body is not JSON or the error object lacks (or leaves
\* empty) type or message; code and retry-after are those of the error
\* object, null when absent; the request id is the x-request-id header,
\* null when absent.
C25_ErrorFieldsAndDefaults ==
  (/\ fn = "raise_for_api_error"
   /\ fdone
   /\ out.raises \in {"APIError", "RateLimitError"})
  => LET e == arg.body.error
         parsed == arg.body.json = "object" /\ e.shape = "object" IN
     /\ out.request_id = arg.rid
     /\ out.type = (IF parsed /\ e.type \notin {Absent, ""} THEN e.type
                                                             ELSE "api_error")
     /\ out.message = (IF parsed /\ e.message # Absent THEN e.message
                                                       ELSE RawText)
     /\ out.code = (IF parsed THEN e.code ELSE Absent)
     /\ out.retry_after = (IF parsed THEN e.retry_after ELSE None)

C25_Witness ==
  /\ fn = "raise_for_api_error"
  /\ fdone
  /\ arg.status = 429
  /\ arg.rid = "req-1"
  /\ arg.body.json = "object"
  /\ arg.body.error.shape = "object"
  /\ arg.body.error.type = Absent
  /\ arg.body.error.retry_after = 2
  /\ out = Outcome("RateLimitError", 429, "api_error", "slow down", Absent,
                   "req-1", 2)

(***************************************************************************)
(* CheckersClient.validate_pin: request("POST", ..., auth,                 *)
(* headers=idempotency_headers()) followed by raise_for_api_error(resp)    *)
(* (_pin.py lines 73-92).                                                  *)
(***************************************************************************)
\* the call is validate_pin's and every send so far was answered 429 with
\* a Retry-After hint, 429 being a status of retry_on_status
C26_Scenario ==
  /\ method = "POST"
  /\ headers = idempotency_headers
  /\ auth = "bearer"
  /\ 429 \in cfg.retry_on_status
  /\ Sends >= 1
  /\ \A i \in 1..Sends : sent[i] = Resp(429, 2)

\* the 429 responses of the endpoint: an error object with a type, and a
\* request id header
C26_Responses ==
  {r \in Responses4xx : /\ r.status = 429
                        /\ r.body.json = "object"
                        /\ r.body.error.shape = "object"
                        /\ r.body.error.type \notin {Absent, ""}}

\* C26: validate_pin sends a POST carrying idempotency-key, so it is
\* retry-eligible; answered 429 with Retry-After on every attempt, the call
\* waits the hinted delay and sends again until attempt exceeds
\* max_attempts (max_attempts + 1 > 1 sends), nothing but get_token's own
\* failure leaves request(), and raise_for_api_error then raises
\* RateLimitError with status 429, the body's type, code and retry_after
\* and the x-request-id header.
C26_ValidatePinRateLimited ==
  C26_Scenario =>
    /\ can_retry(method, headers)
    /\ exc \in {"none", "AuthorizeError"}
    /\ Len(sleeps) <= Sends
    /\ \A i \in 1..Len(sleeps) : sleeps[i] = "hint"
    /\ pc = "send" => Sends <= cfg.max_attempts
    /\ pc = "returned" =>
         /\ Sends = cfg.max_attempts + 1
         /\ Sends > 1
         /\ Len(sleeps) = Sends - 1
         /\ result = 429
         /\ \A r \in C26_Responses :
              raise_for_api_error([r EXCEPT !.status = result]) =
                Outcome("RateLimitError", 429, r.body.error.type,
                        OrDefault(r.body.error.message, RawText),
                        r.body.error.code, r.rid, r.body.error.retry_after)

C26_Witness ==
  /\ C26_Scenario
  /\ pc = "returned"
  /\ Sends = 3
  /\ sleeps = <<"hint", "hint">>
  /\ ~cfg.has_max_cap
  /\ raise_for_api_error(
       [status |-> result, rid |-> "req-1",
        body |-> [json |-> "object",
                  error |-> [shape |-> "object", type |-> "rate_limited",
                             message |-> "slow down", code |-> "E42",
                             retry_after |-> 2]]]).raises = "RateLimitError"

\* C27: with a parsed Retry-After hint ra the delay slept before the retry
\* lies within [0.9 ra, 1.1 ra] and comes from the hint, not from the
\* backoff; without a hint it is a full-jitter backoff.
C27_HintOrBackoffDelay ==
  (fn = "retry_delay" /\ fdone) =>
     IF arg.ra # None
     THEN /\ out.kind = "hint"
          /\ 9 * arg.ra <= 10 * out.delay
          /\ 10 * out.delay <= 11 * arg.ra
     ELSE /\ out.kind = "backoff"
          /\ 0 <= out.delay
          /\ out.delay <= arg.policy.max_cap

\* C28 (as stated): for attempt n >= 1, base b > 0 and cap c > 0 the backoff
\* delay d satisfies 0 <= d <= min(c, b * 2^(n-1)).
C28_DelayWithinHalvedBound ==
  (fn = "full_jitter" /\ fdone /\ arg.base > 0 /\ arg.cap > 0) =>
     /\ 0 <= out
     /\ out <= arg.cap
     /\ out <= arg.base * (2 ^ (arg.attempt - 1))

\* C28 (amended): for attempt n >= 1, base b > 0 and cap c > 0 the backoff
\* delay d satisfies 0 <= d <= min(c, b * 2^n), n being the 1-indexed
\* attempt number the transport passes: the first retry may wait up to 2b.
C28_DelayWithinBound ==
  (fn = "full_jitter" /\ fdone /\ arg.base > 0 /\ arg.cap > 0) =>
     /\ 0 <= out
     /\ out <= arg.cap
     /\ out <= arg.base * (2 ^ arg.attempt)

C28_Witness ==
  /\ fn = "full_jitter"
  /\ fdone
  /\ arg.attempt = 1
  /\ arg.base = 200
  /\ arg.cap = 8000
  /\ out = 400

\* C29: the backoff delay is 0 whenever the base delay is 0, for every
\* attempt number and every cap (caps are not negative).
C29_ZeroBaseZeroDelay ==
  (fn = "full_jitter" /\ fdone /\ arg.base = 0) => out = 0

C29_Witness ==
  /\ fn = "full_jitter"
  /\ fdone
  /\ arg.base = 0
  /\ arg.attempt = MaxJitterAttempt
  /\ arg.cap = 8000
  /\ out = 0

\* the spellings of the idempotent methods and of the idempotency-key
\* header name among the arguments drawn
IdempotentSpellings == {"GET", "get", "HEAD", "OPTIONS", "DELETE", "Delete"}
KeySpellings == {"Idempotency-Key", "idempotency-key", "IDEMPOTENCY-KEY"}

\* C30: _can_retry is true for GET, HEAD, OPTIONS and DELETE whatever the
\* headers, and for any other method exactly when the request has an
\* idempotency-key header; method and header name are compared without
\* regard to case.
C30_CanRetry ==
  (fn = "can_retry" /\ fdone) =>
     (out <=> \/ arg.method \in IdempotentSpellings
              \/ arg.headers \cap KeySpellings # {})

C30_Witness ==
  /\ fn = "can_retry"
  /\ fdone
  /\ arg.method = "post"
  /\ arg.headers = {"IDEMPOTENCY-KEY", "X-Trace"}
  /\ out = TRUE

\* C31: _parse_retry_after returns absent or a number >= 0: a non-negative
\* numeric string yields that number, a negative one yields absent (not
\* 0), an HTTP-date yields max(0, date - now), and an absent, empty or
\* unparseable value yields absent.
C31_ParseRetryAfter ==
  (fn = "parse_retry_after" /\ fdone) =>
    LET v == arg.value IN
    /\ out = None \/ out >= 0
    /\ (v.kind = "number" /\ v.num >= 0) => out = v.num
    /\ (v.kind = "number" /\ v.num < 0) => out = None
    /\ v.kind = "date" =>
         out = (IF v.at > arg.now THEN v.at - arg.now ELSE 0)
    /\ v.kind \in {"absent", "empty", "nan", "garbage"} => out = None

C31_Witness ==
  /\ fn = "parse_retry_after"
  /\ fdone
  /\ arg.value.kind = "number"
  /\ arg.value.num < 0
  /\ out = None

\* C32: a successful fetch of either provider caches expiry = fetch time +
\* max(30, expires_in - early_refresh_s), expires_in being 3600 when the
\* response omits it; so the cached expiry is at least 30 s after the fetch
\* and the token just fetched is usable from the cache.
C32_ExpiryFormulaAndFloor ==
  token # "" =>
    /\ CachedTtl \in (ExpiresInChoices \ {None}) \cup {DEFAULT_EXPIRES_IN}
    /\ exp = storeAt[Stores] + Max(MIN_TOKEN_TTL_S, CachedTtl - early)
    /\ exp >= storeAt[Stores] + MIN_TOKEN_TTL_S
    /\ clock = storeAt[Stores] => CacheUsable

C32_Witness ==
  /\ token # ""
  /\ Stores = 2
  /\ storeAt[2] > 0
  /\ CachedTtl = DEFAULT_EXPIRES_IN
  /\ early > 0
  /\ exp = storeAt[2] + DEFAULT_EXPIRES_IN - early
  /\ clock = storeAt[2]

\* C33: every call of AsyncTransport.request ends (returns or raises) after
\* finitely many sends, whatever the sends answer: 401 with a refresh that
\* always reports success, a retryable status every time, a network error
\* every time, or any mix of them, as long as each awaited step returns.
C33_RequestTerminates == <>Done

C33_Witness ==
  /\ pc = "raised"
  /\ exc = "TransportError"
  /\ cfg.max_attempts = MaxAttemptsBound
  /\ Sends = cfg.max_attempts + 1
  /\ \A i \in 1..Sends : sent[i] = NetErr

\* every send so far failed at network level or was answered with a status
\* of retry_on_status, and no 401 refresh succeeded
C34_AllSendsRetryable ==
  /\ Sends >= 1
  /\ ~did_refresh
  /\ \A i \in 1..Sends :
       \/ sent[i] = NetErr
       \/ sent[i].kind = "resp" /\ sent[i].status \in cfg.retry_on_status

\* C34: one call makes at most max_attempts + 2 sends: a finished call of a
\* retry-eligible request whose sends all failed at network level or
\* returned a retryable status made exactly max_attempts + 1 sends (network
\* and status retries count on the same attempt), and at most one more
\* resend follows the one successful 401 refresh (exceptions of authorize
\* and of the hooks aside).
C34_SendsBound ==
  /\ Sends <= cfg.max_attempts + 2
  /\ Sends > cfg.max_attempts + 1 => did_refresh
  /\ (/\ Done
      /\ can_retry(method, headers)
      /\ C34_AllSendsRetryable
      /\ exc \notin {"AuthorizeError", "HookError", "OnUnauthorizedError"})
     => Sends = cfg.max_attempts + 1

\* C34 for a policy object that carries max_cap_s
C34_SendsBoundWithCap == cfg.has_max_cap => C34_SendsBound

\* the request is not retry-eligible: no idempotent method, no key header
C35_NotEligible ==
  /\ Upper(method) \notin {"GET", "HEAD", "OPTIONS", "DELETE"}
  /\ \A h \in headers : Lower(h) # "idempotency-key"

\* C35: a request that is not retry-eligible is sent at most twice: its
\* first send ends the call unless it was answered 401 and the refresh
\* succeeded, it never sleeps for a retry, and its second send (the refresh
\* resend) ends the call whatever it brings.
C35_IneligibleSentAtMostTwice ==
  C35_NotEligible =>
    /\ Sends <= 2
    /\ sleeps = <<>>
    /\ (Sends >= 1 /\ ~did_refresh) => (Done /\ Sends = 1)
    /\ did_refresh =>
         (auth # "none" /\ sent[1] \in {Resp(401, ra) : ra \in RetryAfterHints})
    /\ Sends = 2 => (Done /\ did_refresh)

C35_Witness ==
  /\ C35_NotEligible
  /\ cfg.max_attempts = MaxAttemptsBound
  /\ cfg.retry_on_status = {401, 429}
  /\ Sends = 2
  /\ sent[1] = Resp(401, 2)
  /\ sent[2] = Resp(429, 2)
  /\ pc = "returned"
  /\ result = 429

\* what a request object carries besides its Authorization header, the
\* attempt number of its extensions and its identity
C36_CallerPart(r) == [method |-> r.method, headers |-> r.headers]

\* C36: every request sent within one call was built from the caller's
\* method and keyword arguments, so all sends carry the same headers (the
\* idempotency-key among them) and body; the k-th send carries attempt
\* number k; only the Authorization header and the attempt number differ
\* between the sends; and no request object is sent twice.
C36_AttemptsRebuiltFromCallerArgs ==
  /\ Len(wire) = Sends
  /\ \A k \in 1..Len(wire) :
       /\ C36_CallerPart(wire[k]) = [method |-> method, headers |-> headers]
       /\ wire[k].attempt = k
       /\ (wire[k].authorization # 0) = (auth # "none")
       /\ \A j \in 1..Len(wire) :
            /\ C36_CallerPart(wire[j]) = C36_CallerPart(wire[k])
            /\ j # k => wire[j].obj # wire[k].obj

C36_Witness ==
  /\ method = "POST"
  /\ headers = idempotency_headers
  /\ auth = "bearer"
  /\ Len(wire) = 3
  /\ sent[1] = NetErr
  /\ sent[2] = Resp(429, 2)
  /\ wire[1].authorization # wire[3].authorization
  /\ wire[3].attempt = 3

\* C37: a sleep that comes from the backoff calculator lies in
\* [0, max_cap_s]; a sleep that comes from a parsed Retry-After hint lies
\* within 10% of the hint whatever max_cap_s is, so it may exceed the cap;
\* every sleep is >= 0 and at most max(max_cap_s, 1.1 x hint).
C37_SleepBounds ==
  /\ (fn = "full_jitter" /\ fdone) => (0 <= out /\ out <= arg.cap)
  /\ (fn = "retry_delay" /\ fdone) =>
       LET cap == arg.policy.max_cap
           hint == arg.ra IN
       /\ out.kind = "backoff" =>
            (hint = None /\ 0 <= out.delay /\ out.delay <= cap)
       /\ out.kind = "hint" =>
            /\ hint # None
            /\ 0 <= out.delay
            /\ 10 * out.delay >= 9 * hint
            /\ 10 * out.delay <= 11 * hint
            /\ out.delay <= Max(cap, hint + hint \div 10)
       /\ out.kind = "AttributeError" => out.delay = None

C37_Witness ==
  /\ fn = "retry_delay"
  /\ fdone
  /\ out.kind = "hint"
  /\ arg.policy.has_max_cap
  /\ out.delay > arg.policy.max_cap
  /\ arg.policy.max_cap > 0

\* C38: a fetch that raises releases the lock and leaves the cache as it
\* was; a caller waiting for the lock then makes its own fetch: whoever
\* raised has fetched itself, and when all NumTasks concurrent calls have
\* raised, NumTasks fetches were made and nothing was cached.
C38_FailureNotShared ==
  /\ locked = (Fetching # {})
  /\ \A t \in Tasks : tpc[t] = "failed" => fetchedBy[t]
  /\ nFetch = Cardinality(Fetchers)
  /\ Stores = 0 =>
       /\ token = "" /\ exp = 0
       /\ \A t \in Tasks : tpc[t] # "done"
  /\ (\A t \in Tasks : tpc[t] = "failed")
       => (nFetch = NumTasks /\ Stores = 0 /\ ~locked /\ waiters = <<>>)

C38_Witness ==
  /\ \A t \in Tasks : op[t] = "get_token"
  /\ Stores = 0
  /\ nFetch = 2
  /\ \E t, u, v \in Tasks :
       /\ tpc[t] = "failed"
       /\ tpc[u] = "fetching"
       /\ tpc[v] = "waiting"
       /\ waiters = <<v>>

\* C39: under a fair scheduler and with fetches that end, every call of
\* get_token() or refresh() that waits for the lock or fetches eventually
\* returns a token or raises: the lock is released by every holder, so no
\* caller waits forever.
C39_EveryCallEnds ==
  \A t \in Tasks :
    (tpc[t] \in {"waiting", "fetching"}) ~> (tpc[t] \in {"done", "failed"})

C39_Witness ==
  /\ \A t \in Tasks : tpc[t] \in {"done", "failed"}
  /\ \E t \in Tasks : tpc[t] = "failed" /\ op[t] = "refresh"
  /\ \E t \in Tasks : tpc[t] = "done" /\ op[t] = "get_token" /\ fetchedBy[t]
  /\ nFetch = NumTasks
  /\ ~locked

====
